---- MODULE Spec2Model ----
(***************************************************************************)
(* Model of async_image_generator.py: the confirmation gate, the two-level *)
(* asyncio fan-out (main -> generate_images_for_country_group ->           *)
(* generate_image), the sequential save loop with its directory-scan       *)
(* numbering, and the final cost summary.                                  *)
(*                                                                         *)
(* Scheduling follows the asyncio event loop: one thread, a FIFO queue of  *)
(* ready tasks, a task runs from where it was resumed to its next await.   *)
(* The only nondeterminism is what the outside world does: what the user   *)
(* types, when each HTTP response arrives and what it is.                  *)
(***************************************************************************)
EXTENDS Integers, Sequences, FiniteSets, TLC

\* ---------------------------------------------------------------- bounds
\* --n_per_country ranges over 0..MaxN
MaxN == 2
\* at most MaxFaults requests of a run come back with anything but an image
MaxFaults == 2

\* ------------------------------------------------------------ input sets
AllGroups == {"A", "B"}

\* config['countries'].keys(), in the insertion order the dict keeps
Configs == {<<"A">>, <<"A", "B">>}

\* Command lines, but for --n_per_country: --model is a free string, of which
\* the code knows "schnell" and "dev"; the first line is argparse's defaults.
CommandLine(model, width, height, num_inference_steps) ==
    [model |-> model, width |-> width, height |-> height,
     num_inference_steps |-> num_inference_steps]

CommandLines ==
    { CommandLine("schnell", 512, 512, 1),
      CommandLine("dev", 1024, 768, 4),
      CommandLine("turbo", 512, 512, 1) }

\* What a request can come back with:
\*   image      HTTP 200, payload decodes to the bytes of an image
\*   empty      HTTP 200, payload after the comma is empty: b64decode gives b''
\*   garbage    HTTP 200, payload decodes to bytes PIL cannot open
\*   http_error any status other than 200
\*   transport  session.post raises (connection refused, reset, ...)
Outcomes == {"image", "empty", "garbage", "http_error", "transport"}

\* What the user may type at the prompt, as typed (sequences of characters)
RawResponses ==
    { <<"y", "e", "s">>, <<" ", "Y", " ">>, <<"N", "o">>, <<"n">>,
      <<"o", "k">>, <<>> }

\* `response` outside ask_user_confirmation (the local does not exist)
NoResponse == <<"\n">>

\* ------------------------------------------------------------- file names
\* A directory entry is [stem, ext], standing for the name stem "." ext.
PngName(stem) == [stem |-> stem, ext |-> "png"]

\* f"{country_group}{next_number}.png"
FileName(country_group, next_number) ==
    PngName(country_group \o ToString(next_number))

\* What a file holds: src = "old" for a file that was there before the run,
\* else the group of the request whose image it is, and id its position in
\* the group's batch.
OldData(k) == [src |-> "old", id |-> k]
ImageData(g, i) == [src |-> g, id |-> i]

NoFiles == [x \in {} |-> OldData(0)]
Dir(exists, files) == [exists |-> exists, files |-> files]

OldFiles(names) == [f \in names |-> OldData(0)]

\* What a run may find under generated_images/ at its start: nothing; the
\* files of earlier runs, beside a file that is no .png; what is left of
\* earlier runs after the user deleted A1.png; a .png of another name.
FileSystems ==
    { [A |-> Dir(FALSE, NoFiles), B |-> Dir(FALSE, NoFiles)],
      [A |-> Dir(TRUE, OldFiles({PngName("A1"), PngName("A2"),
                                 [stem |-> "notes", ext |-> "txt"]})),
       B |-> Dir(TRUE, NoFiles)],
      [A |-> Dir(TRUE, OldFiles({PngName("A2"), PngName("A3")})),
       B |-> Dir(TRUE, OldFiles({PngName("B1")}))],
      [A |-> Dir(TRUE, OldFiles({PngName("A1"), PngName("cover")})),
       B |-> Dir(FALSE, NoFiles)] }

\* ----------------------------------------------------- pure helper functions
\* str.lower(), on the characters the inputs use
LowerChar(c) ==
    CASE c = "Y" -> "y"
      [] c = "E" -> "e"
      [] c = "S" -> "s"
      [] c = "N" -> "n"
      [] c = "O" -> "o"
      [] c = "K" -> "k"
      [] OTHER -> c

Lower(s) == [k \in 1..Len(s) |-> LowerChar(s[k])]

Whitespace == {" ", "\t", "\n"}

RECURSIVE LStrip(_)
LStrip(s) ==
    IF s # <<>> /\ Head(s) \in Whitespace THEN LStrip(Tail(s)) ELSE s

RECURSIVE RStrip(_)
RStrip(s) ==
    IF s # <<>> /\ s[Len(s)] \in Whitespace
    THEN RStrip(SubSeq(s, 1, Len(s) - 1))
    ELSE s

\* str.strip()
Strip(s) == RStrip(LStrip(s))

\* input(...).lower().strip()
ReadResponse(raw) == Strip(Lower(raw))

\* a gate that takes whatever is not a refusal for consent
IsYesUnlessNo(response) == response \notin {<<"n", "o">>, <<"n">>}

IsYes(response) == response \in {<<"y", "e", "s">>, <<"y">>}
IsNo(response) == response \in {<<"n", "o">>, <<"n">>}

\* the url chosen for a model, "" when generate_image returns None at once
UrlOf(model) ==
    CASE model = "schnell" -> "FLUX-1-schnell"
      [] model = "dev" -> "FLUX-1-dev"
      [] OTHER -> ""

\* calculate_cost, in units of 1/(10000 * 1024 * 1024) dollar:
\* 0.0005 * (width / 1024) * (height / 1024) * num_inference_steps
CostRate == 5
calculate_cost(width, height, num_inference_steps) ==
    CostRate * width * height * num_inference_steps

\* len(config['countries']) * n_per_country
calculate_total_images(cfg, n_per_country) == Len(cfg) * n_per_country

\* a scan that forgets the filter on '.png'
ExistingFilesUnfiltered(dir) == DOMAIN dir.files

\* [f for f in os.listdir(folder) if f.endswith('.png')]
ExistingFiles(dir) == {f \in DOMAIN dir.files : f.ext = "png"}

\* a numbering that starts at 0
get_next_image_number_from0(dir) == Cardinality(ExistingFiles(dir))

\* get_next_image_number: len(existing_files) + 1
get_next_image_number(dir) == Cardinality(ExistingFiles(dir)) + 1

\* Command lines at the edge of what argparse's type=int lets through and
\* the cost formula takes: a width of 0, no inference step.
EdgeCommandLines ==
    { CommandLine("schnell", 512, 512, 1),
      CommandLine("dev", 1024, 768, 4),
      CommandLine("schnell", 0, 512, 1),
      CommandLine("dev", 512, 512, 0) }

\* bool(image_bytes): None and b'' are falsy
Truthy(result) == result \in {"image", "garbage"}

\* image.save(full_path): creates the file or replaces what it held
WriteFile(dir, name, data) ==
    Dir(TRUE, [f \in DOMAIN dir.files \cup {name} |->
                   IF f = name THEN data ELSE dir.files[f]])

\* os.makedirs(folder, exist_ok=True)
MakeDirs(dir) == Dir(TRUE, dir.files)

\* ------------------------------------------------------------------ state
VARIABLES
    args,              \* the parsed command line (never written after Init)
    config,            \* config['countries'].keys()
    fs0,               \* generated_images/ as the run found it
    fs,                \* generated_images/ now: group -> directory
    pcMain,            \* where main() is
    response,          \* ask_user_confirmation's local
    hinted,            \* "Please answer with 'yes' or 'no'." has been printed
    confirmed,         \* what ask_user_confirmation returned: "yes", "no", "-"
    total_images,      \* main's locals
    total_cost,
    generated_images,
    actual_cost,
    exitStatus,        \* the process's exit status, -1 while it runs
    ready,             \* the event loop's FIFO queue of tasks ready to run
    running,           \* the group whose task holds the thread, or "none"
    mainExc,           \* main's gather was woken by an exception
    req,               \* the generate_image tasks
    grp,               \* the generate_images_for_country_group tasks
    written            \* per group, the file names save_image wrote, in order

vars == <<args, config, fs0, fs, pcMain, response, hinted, confirmed,
          total_images, total_cost, generated_images, actual_cost,
          exitStatus, ready, running, mainExc, req, grp, written>>

inputVars == <<args, config, fs0>>
tallyVars == <<total_images, total_cost, generated_images, actual_cost>>

ReqIds == AllGroups \X (1..MaxN)

Task(kind, g, i) == [kind |-> kind, g |-> g, i |-> i]
MainTask == Task("main", "", 0)
GroupTask(g) == Task("grp", g, 0)
ReqTask(g, i) == Task("req", g, i)

NoReq == [pc |-> "none", result |-> "-", posts |-> 0]
NoGrp == [pc |-> "none", i |-> 0, exc |-> FALSE, ret |-> -1]

Range(s) == {s[k] : k \in 1..Len(s)}
Groups == Range(config)

\* a range that stops one short
BatchShort == 1..(args.n_per_country - 1)

\* range(n_per_country), counted from 1
Batch == 1..args.n_per_country

\* main before its first statement that computes: arguments parsed, config
\* loaded, nothing started.
InitWith(commandLines, fileSystems) ==
    /\ \E n \in 0..MaxN, c \in commandLines :
          args = [n_per_country |-> n, width |-> c.width, height |-> c.height,
                  num_inference_steps |-> c.num_inference_steps,
                  model |-> c.model]
    /\ config \in Configs
    /\ fs0 \in fileSystems
    /\ fs = fs0
    /\ pcMain = "start"
    /\ response = NoResponse
    /\ hinted = FALSE
    /\ confirmed = "-"
    /\ total_images = 0
    /\ total_cost = 0
    /\ generated_images = 0
    /\ actual_cost = 0
    /\ exitStatus = -1
    /\ ready = <<>>
    /\ running = "none"
    /\ mainExc = FALSE
    /\ req = [r \in ReqIds |-> NoReq]
    /\ grp = [g \in AllGroups |-> NoGrp]
    /\ written = [g \in AllGroups |-> <<>>]

Init == InitWith(CommandLines, FileSystems)

\* ------------------------------------------------------- main, to the gate
\* main: total_images and total_cost, then the call of ask_user_confirmation
MainEstimate ==
    /\ pcMain = "start"
    /\ total_images' = calculate_total_images(config, args.n_per_country)
    /\ total_cost' = total_images' * calculate_cost(args.width, args.height,
                                                    args.num_inference_steps)
    /\ pcMain' = "confirm"
    /\ UNCHANGED <<inputVars, fs, response, hinted, confirmed, generated_images,
                   actual_cost, exitStatus, ready, running, mainExc, req, grp,
                   written>>

\* sys.exit(0) after "Operation cancelled by user."
DeclinedExit == 0
\* the status of a process whose asyncio.run(main()) returns
NormalExit == 0
\* the status of a process that an uncaught exception ends
TracebackExit == 1

\* a main that prints the cancellation and goes on
GatePcNoExit(ok) == "launch"

\* main: `if not ask_user_confirmation(...): ...; sys.exit(0)`
GatePc(ok) == IF ok THEN "launch" ELSE "declined"

\* One turn of ask_user_confirmation's loop: read an answer; return True or
\* False to main, which goes on or exits, or print the hint and ask again.
AskUserConfirmation(raw) ==
    /\ pcMain = "confirm"
    /\ response' = ReadResponse(raw)
    /\ IF IsYes(response')
       THEN /\ confirmed' = "yes"
            /\ pcMain' = GatePc(TRUE)
       ELSE IF IsNo(response')
       THEN /\ confirmed' = "no"
            /\ pcMain' = GatePc(FALSE)
       ELSE /\ confirmed' = confirmed
            /\ pcMain' = "confirm"
    /\ hinted' = (hinted \/ (~IsYes(response') /\ ~IsNo(response')))
    /\ exitStatus' = IF pcMain' = "declined" THEN DeclinedExit ELSE exitStatus
    /\ UNCHANGED <<inputVars, fs, tallyVars, ready, running, mainExc, req,
                   grp, written>>

\* main: the session is opened, one task per group is created in the order of
\* config['countries'], and main awaits their gather.
MainLaunch ==
    /\ pcMain = "launch"
    /\ response' = NoResponse
    /\ generated_images' = 0
    /\ grp' = [g \in AllGroups |->
                  IF g \in Groups THEN [NoGrp EXCEPT !.pc = "created"]
                  ELSE grp[g]]
    /\ ready' = [k \in 1..Len(config) |-> GroupTask(config[k])]
    /\ pcMain' = "gather"
    /\ UNCHANGED <<inputVars, fs, hinted, confirmed, total_images,
                   total_cost, actual_cost, exitStatus, running, mainExc, req,
                   written>>

\* ------------------------------------------------------------ the fan-out
AtHead(task) == running = "none" /\ ready # <<>> /\ Head(ready) = task

\* asyncio.gather(*tasks) of a group, without return_exceptions: it completes
\* with the results once every child is done, or with the first exception a
\* child raises; the children it leaves behind keep running.
BatchDone(rq, g) == \A i \in Batch : rq[<<g, i>>].pc = "done"
BatchRaised(rq, g) == \E i \in Batch : rq[<<g, i>>].result = "raised"
\* a wait that returns with the first child that is done
GroupWokenOnFirst(rq, g) ==
    grp[g].pc = "gathering" /\ \E i \in Batch : rq[<<g, i>>].pc = "done"

GroupWoken(rq, g) ==
    grp[g].pc = "gathering" /\ (BatchRaised(rq, g) \/ BatchDone(rq, g))

\* asyncio.gather(*tasks) of main, over the groups
RunDone(gp) == \A g \in Groups : gp[g].pc = "returned"
RunRaised(gp) == \E g \in Groups : gp[g].pc = "raised"
MainWoken(gp) == pcMain = "gather" /\ (RunRaised(gp) \/ RunDone(gp))

\* A group task ended (returned or raised): what main and the queue become.
NotifyMain(gp, queue) ==
    /\ pcMain' = IF MainWoken(gp) THEN "woken" ELSE pcMain
    /\ mainExc' = IF MainWoken(gp) THEN RunRaised(gp) ELSE mainExc
    /\ ready' = IF MainWoken(gp) THEN Append(queue, MainTask) ELSE queue

\* A generate_image task ended: what its group and the queue become.
NotifyGroup(rq, g, queue) ==
    /\ grp' = IF GroupWoken(rq, g)
              THEN [grp EXCEPT ![g].pc = "woken",
                               ![g].exc = BatchRaised(rq, g)]
              ELSE grp
    /\ ready' = IF GroupWoken(rq, g) THEN Append(queue, GroupTask(g))
                ELSE queue

\* generate_images_for_country_group, from its start to `await gather`: the
\* folder is made, n_per_country generate_image tasks are created in order.
\* The prompt drawn for each task decides nothing the model tracks.
\* With no task to wait for, gather is done at once and the await does not
\* suspend: the task goes straight on to its loop.
GroupStart(g) ==
    /\ AtHead(GroupTask(g))
    /\ grp[g].pc = "created"
    /\ fs' = [fs EXCEPT ![g] = MakeDirs(fs[g])]
    /\ req' = [r \in ReqIds |->
                  IF r[1] = g /\ r[2] \in Batch
                  THEN [NoReq EXCEPT !.pc = "created"]
                  ELSE req[r]]
    /\ ready' = Tail(ready) \o [k \in Batch |-> ReqTask(g, k)]
    /\ IF Batch = {}
       THEN /\ grp' = [grp EXCEPT ![g].pc = "saving", ![g].i = 1]
            /\ running' = g
       ELSE /\ grp' = [grp EXCEPT ![g].pc = "gathering"]
            /\ running' = running
    /\ UNCHANGED <<inputVars, pcMain, response, hinted, confirmed, tallyVars,
                   exitStatus, mainExc, written>>

\* generate_image, from its start: an unknown model returns None at once,
\* else session.post is called and the task waits for the response.
RequestStart(g, i) ==
    /\ AtHead(ReqTask(g, i))
    /\ req[<<g, i>>].pc = "created"
    /\ IF UrlOf(args.model) = ""
       THEN LET rq == [req EXCEPT ![<<g, i>>].pc = "done",
                                  ![<<g, i>>].result = "None"]
            IN  /\ req' = rq
                /\ NotifyGroup(rq, g, Tail(ready))
       ELSE /\ req' = [req EXCEPT ![<<g, i>>].pc = "posted",
                                  ![<<g, i>>].posts = @ + 1]
            /\ ready' = Tail(ready)
            /\ grp' = grp
    /\ UNCHANGED <<inputVars, fs, pcMain, response, hinted, confirmed,
                   tallyVars, exitStatus, running, mainExc, written>>

\* generate_image, from the response on: what the task returns, "raised" when
\* the exception of session.post leaves it (nothing in it catches)
ResultOf(outcome) ==
    CASE outcome = "image" -> "image"
      [] outcome = "empty" -> "empty"
      [] outcome = "garbage" -> "garbage"
      [] outcome = "http_error" -> "None"
      [] outcome = "transport" -> "raised"

\* The outside world answers a posted request, or the connection fails: when
\* the loop next polls (the thread is free) it resumes the waiting task, which
\* ends. What was ready before the poll is not overtaken: the group this
\* wakes joins the queue at its end.
Faults ==
    Cardinality({r \in ReqIds : /\ req[r].pc = "done"
                                /\ req[r].posts > 0
                                /\ req[r].result # "image"})

Response(g, i, outcome) ==
    /\ running = "none"
    /\ req[<<g, i>>].pc = "posted"
    /\ outcome # "image" => Faults < MaxFaults
    /\ LET rq == [req EXCEPT ![<<g, i>>].pc = "done",
                             ![<<g, i>>].result = ResultOf(outcome)]
       IN  /\ req' = rq
           /\ NotifyGroup(rq, g, ready)
    /\ UNCHANGED <<inputVars, fs, pcMain, response, hinted, confirmed,
                   tallyVars, exitStatus, running, mainExc, written>>

\* generate_images_for_country_group, resumed by its gather: the exception
\* leaves the task (nothing in it catches), or the loop over the results
\* begins.
GroupResume(g) ==
    /\ AtHead(GroupTask(g))
    /\ grp[g].pc = "woken"
    /\ IF grp[g].exc
       THEN LET gp == [grp EXCEPT ![g].pc = "raised"]
            IN  /\ grp' = gp
                /\ NotifyMain(gp, Tail(ready))
                /\ running' = running
       ELSE /\ grp' = [grp EXCEPT ![g].pc = "saving", ![g].i = 1]
            /\ ready' = Tail(ready)
            /\ running' = g
            /\ UNCHANGED <<pcMain, mainExc>>
    /\ UNCHANGED <<inputVars, fs, response, hinted, confirmed, tallyVars,
                   exitStatus, req, written>>

\* ---------------------------------------------------------- the save loop
\* One turn of `for i, image_bytes in enumerate(image_bytes_list)`. The loop
\* has no await in it: the group's task keeps the thread from the first turn
\* to its return. A truthy result gets the next number of the folder and is
\* saved; save_image lets the exception of Image.open on bytes that are no
\* image leave it, and the loop, and the task.
SaveStep(g) ==
    /\ running = g
    /\ grp[g].pc = "saving"
    /\ grp[g].i \in Batch
    /\ LET i == grp[g].i
           image_bytes == req[<<g, i>>].result
           folder == MakeDirs(fs[g])
           next_number == get_next_image_number(folder)
           file_name == FileName(g, next_number)
       IN  IF ~Truthy(image_bytes)
           THEN /\ grp' = [grp EXCEPT ![g].i = i + 1]
                /\ UNCHANGED <<fs, written, ready, pcMain, mainExc, running>>
           ELSE IF image_bytes = "garbage"
           THEN LET gp == [grp EXCEPT ![g].pc = "raised"]
                IN  /\ grp' = gp
                    /\ fs' = [fs EXCEPT ![g] = folder]
                    /\ NotifyMain(gp, ready)
                    /\ running' = "none"
                    /\ UNCHANGED written
           ELSE /\ grp' = [grp EXCEPT ![g].i = i + 1]
                /\ fs' = [fs EXCEPT ![g] =
                             WriteFile(folder, file_name, ImageData(g, i))]
                /\ written' = [written EXCEPT ![g] = Append(@, file_name)]
                /\ UNCHANGED <<ready, pcMain, mainExc, running>>
    /\ UNCHANGED <<inputVars, response, hinted, confirmed, tallyVars,
                   exitStatus, req>>

\* a count taken over the results of every group, not of this one
SuccessCountOfAll(g) ==
    Cardinality({r \in ReqIds : req[r].pc = "done" /\ req[r].result # "None"})

\* len([img for img in image_bytes_list if img is not None])
SuccessCount(g) == Cardinality({i \in Batch : req[<<g, i>>].result # "None"})

\* generate_images_for_country_group: the loop is over, the count is returned
GroupReturn(g) ==
    /\ running = g
    /\ grp[g].pc = "saving"
    /\ grp[g].i \notin Batch
    /\ LET gp == [grp EXCEPT ![g].pc = "returned",
                             ![g].ret = SuccessCount(g)]
       IN  /\ grp' = gp
           /\ NotifyMain(gp, ready)
    /\ running' = "none"
    /\ UNCHANGED <<inputVars, fs, response, hinted, confirmed, tallyVars,
                   exitStatus, req, written>>

\* ------------------------------------------------------- main, after gather
RECURSIVE SumResults(_, _)
SumResults(gp, cfg) ==
    IF cfg = <<>> THEN 0 ELSE gp[Head(cfg)].ret + SumResults(gp, Tail(cfg))

\* asyncio.run after the exception left main: what still runs is cancelled
Cancelled(pc) ==
    IF pc \in {"none", "done", "returned", "raised"} THEN pc ELSE "cancelled"

\* main, resumed by its gather. With the results: sum, actual cost, the
\* summary, and the process ends with status 0. With an exception: nothing in
\* main catches it, the process ends with a traceback and status 1.
MainResume ==
    /\ AtHead(MainTask)
    /\ pcMain = "woken"
    /\ IF mainExc
       THEN /\ pcMain' = "crashed"
            /\ exitStatus' = TracebackExit
            /\ ready' = <<>>
            /\ req' = [r \in ReqIds |-> [req[r] EXCEPT !.pc = Cancelled(@)]]
            /\ grp' = [g \in AllGroups |-> [grp[g] EXCEPT !.pc = Cancelled(@)]]
            /\ UNCHANGED <<generated_images, actual_cost>>
       ELSE /\ generated_images' = SumResults(grp, config)
            /\ actual_cost' = generated_images' *
                   calculate_cost(args.width, args.height,
                                  args.num_inference_steps)
            /\ pcMain' = "done"
            /\ exitStatus' = NormalExit
            /\ ready' = Tail(ready)
            /\ UNCHANGED <<req, grp>>
    /\ UNCHANGED <<inputVars, fs, response, hinted, confirmed, total_images,
                   total_cost, running, mainExc, written>>

\* ------------------------------------------------------------ specification
Next ==
    \/ MainEstimate
    \/ \E raw \in RawResponses : AskUserConfirmation(raw)
    \/ MainLaunch
    \/ \E g \in AllGroups : GroupStart(g)
    \/ \E g \in AllGroups, i \in 1..MaxN : RequestStart(g, i)
    \/ \E g \in AllGroups, i \in 1..MaxN, o \in Outcomes : Response(g, i, o)
    \/ \E g \in AllGroups : GroupResume(g)
    \/ \E g \in AllGroups : SaveStep(g)
    \/ \E g \in AllGroups : GroupReturn(g)
    \/ MainResume

Spec == Init /\ [][Next]_vars

\* The event loop runs a ready task whenever the thread is free, a task that
\* holds the thread goes on, and the user is there to answer the prompt.
RunLoop ==
    \/ MainEstimate
    \/ \E raw \in RawResponses : AskUserConfirmation(raw)
    \/ MainLaunch
    \/ \E g \in AllGroups : GroupStart(g) \/ GroupResume(g)
    \/ \E g \in AllGroups, i \in 1..MaxN : RequestStart(g, i)
    \/ \E g \in AllGroups : SaveStep(g) \/ GroupReturn(g)
    \/ MainResume

\* Every posted request comes back, one way or another.
Respond == \E g \in AllGroups, i \in 1..MaxN, o \in Outcomes : Response(g, i, o)

FairSpec == Spec /\ WF_vars(RunLoop) /\ WF_vars(Respond)

\* The runs of the edge command lines, into an output folder not there yet.
EdgeInit ==
    InitWith(EdgeCommandLines,
             {[A |-> Dir(FALSE, NoFiles), B |-> Dir(FALSE, NoFiles)]})

EdgeSpec == EdgeInit /\ [][Next]_vars

\* ------------------------------------------------------------------ claims
\* the calls of session.post a run has made
RECURSIVE SumPosts(_)
SumPosts(rs) ==
    IF rs = {} THEN 0
    ELSE LET r == CHOOSE x \in rs : TRUE
         IN  req[r].posts + SumPosts(rs \ {r})

PostsIssued == SumPosts(ReqIds)

NothingLaunched ==
    /\ \A r \in ReqIds : req[r] = NoReq
    /\ \A g \in AllGroups : grp[g] = NoGrp
    /\ ready = <<>>

\* everything of the run but the gate's own response, hint and position
beyondGate == <<inputVars, fs, confirmed, tallyVars, exitStatus, ready,
                running, mainExc, req, grp, written>>

\* the four answers the prompt takes: yes, y, no, n
Answers == {<<"y", "e", "s">>, <<"y">>, <<"n", "o">>, <<"n">>}

\* C1: no request is posted (no task is even created) unless
\* ask_user_confirmation has returned True; and an answer that, lowered and
\* stripped, is none of yes, y, no, n leaves main at the prompt and changes
\* nothing of the run but the answer read and the hint printed.
C1_GateBeforeRequests ==
    /\ [](confirmed # "yes" => PostsIssued = 0 /\ NothingLaunched)
    /\ [][(pcMain = "confirm" /\ response' \notin Answers)
             => (pcMain' = "confirm" /\ UNCHANGED beyondGate)]_vars

\* the user was asked again once, then agreed, and requests went out
C1_Witness == hinted /\ confirmed = "yes" /\ PostsIssued > 0

\* C2: after a negative answer the run has ended, no request was posted, no
\* task created, and generated_images/ is as the run found it.
C2_DeclineNoEffects ==
    confirmed = "no" =>
        /\ pcMain = "declined"
        /\ exitStatus # -1
        /\ PostsIssued = 0
        /\ NothingLaunched
        /\ fs = fs0
        /\ \A g \in AllGroups : written[g] = <<>>

C2_Witness == confirmed = "no" /\ pcMain = "declined" /\ ~fs0.A.exists

\* C3: the exit status of a run the user declined differs from the exit
\* status of a run that completed after generating.
C3_DeclinedExitDistinct ==
    pcMain = "declined" => exitStatus # NormalExit

\* the requests of a group that came back without an image: a status other
\* than 200, or no request at all
Failed(g) == {i \in 1..args.n_per_country : req[<<g, i>>].result = "None"}

\* the requests of a group that came back with an image
Images(g) == {i \in 1..args.n_per_country : req[<<g, i>>].result = "image"}

\* the files of a group's folder that the run created or changed
FilesPersisted(g) ==
    {f \in DOMAIN fs[g].files :
        f \notin DOMAIN fs0[g].files \/ fs[g].files[f] # fs0[g].files[f]}

RECURSIVE SumSucceeded(_)
SumSucceeded(cfg) ==
    IF cfg = <<>> THEN 0
    ELSE (args.n_per_country - Cardinality(Failed(Head(cfg))))
         + SumSucceeded(Tail(cfg))

\* C4: a group of N requests of which f fail with a non-success status
\* returns N - f and has persisted exactly N - f image files; the actual cost
\* of the run is the sum of these counts times the unit cost.
C4_PartialFailureCount ==
    /\ \A g \in Groups :
          grp[g].pc = "returned" =>
              /\ grp[g].ret = args.n_per_country - Cardinality(Failed(g))
              /\ Cardinality(FilesPersisted(g)) =
                     args.n_per_country - Cardinality(Failed(g))
    /\ pcMain = "done" =>
          actual_cost = SumSucceeded(config) *
              calculate_cost(args.width, args.height, args.num_inference_steps)

\* C5: a request that fails, by its status or in transport, ends with None,
\* never with an exception, and no group's batch is aborted by a request.
C5_FailureIsAbsence ==
    /\ \A r \in ReqIds : req[r].result # "raised"
    /\ \A g \in Groups : ~grp[g].exc /\ grp[g].pc # "cancelled"

\* the names {group}1.png .. {group}K.png, counted on from M
NamesFrom(g, M, K) == {PngName(g \o ToString(M + k)) : k \in 1..K}

\* the .png files of a directory
PngFilesOf(dir) == {f \in DOMAIN dir.files : f.ext = "png"}

\* C6: in a group folder that was empty (or not there) when the run began,
\* the K images saved so far are {group}1.png .. {group}K.png, written in
\* that order, each once, and nothing else is in the folder; when the group
\* returns, K is the number of its requests that came back with an image,
\* whatever the order the responses came in.
C6_FreshFolderNumbering ==
    \A g \in Groups :
        DOMAIN fs0[g].files = {} =>
            LET K == Len(written[g]) IN
            /\ written[g] = [k \in 1..K |-> PngName(g \o ToString(k))]
            /\ DOMAIN fs[g].files = NamesFrom(g, 0, K)
            /\ Cardinality(DOMAIN fs[g].files) = K
            /\ grp[g].pc = "returned" => K = Cardinality(Images(g))

\* a group whose folder was empty or missing has returned, MaxN images saved
C6_Witness ==
    \E g \in Groups :
        /\ DOMAIN fs0[g].files = {}
        /\ grp[g].pc = "returned"
        /\ Len(written[g]) = MaxN

\* C7: in a group folder whose .png files were {group}1.png .. {group}M.png
\* when the run began, the J images saved so far are {group}(M+1).png ..
\* {group}(M+J).png and every file of before holds what it held; when the
\* group returns, J is the number of its requests that came back with an
\* image.
C7_ContinuesNumbering ==
    \A g \in Groups :
        LET M == Cardinality(PngFilesOf(fs0[g]))
            J == Len(written[g])
        IN  PngFilesOf(fs0[g]) = NamesFrom(g, 0, M) =>
                /\ DOMAIN fs[g].files =
                       DOMAIN fs0[g].files \cup NamesFrom(g, M, J)
                /\ Range(written[g]) = NamesFrom(g, M, J)
                /\ Cardinality(NamesFrom(g, M, J)) = J
                /\ \A f \in DOMAIN fs0[g].files :
                       fs[g].files[f] = fs0[g].files[f]
                /\ grp[g].pc = "returned" => J = Cardinality(Images(g))

C7_Witness ==
    \E g \in Groups :
        /\ PngFilesOf(fs0[g]) = NamesFrom(g, 0, 2)
        /\ grp[g].pc = "returned"
        /\ Len(written[g]) >= 1
        /\ Cardinality(Failed(g)) >= 1

\* C8: with a model other than schnell and dev the run is rejected: no
\* request is posted, generated_images/ stays as it was found, and the run
\* does not end as a completed run.
C8_BadModelRejected ==
    args.model \notin {"schnell", "dev"} =>
        /\ PostsIssued = 0
        /\ fs = fs0
        /\ pcMain # "done"

\* C9: a run that passed the gate reaches the summary, every group returned.
C9_RunsToSummary ==
    (confirmed = "yes") ~>
        (pcMain = "done" /\ \A g \in Groups : grp[g].pc = "returned")

\* C10: in a confirmed run with a known model no request is posted twice and
\* no task exists outside the n_per_country of each configured group; when
\* the run has ended, each of those tasks has posted exactly once, and the
\* posts are as many as the images planned, |groups| * n_per_country.
C10_OnePostPerAttempt ==
    (confirmed = "yes" /\ args.model \in {"schnell", "dev"}) =>
        /\ \A r \in ReqIds :
              /\ req[r].posts <= 1
              /\ req[r].pc # "none" =>
                     r[1] \in Groups /\ r[2] \in 1..args.n_per_country
        /\ total_images = Len(config) * args.n_per_country
        /\ PostsIssued <= total_images
        /\ pcMain \in {"done", "crashed"} =>
              /\ \A g \in Groups, i \in 1..args.n_per_country :
                     req[<<g, i>>].posts = 1
              /\ PostsIssued = total_images

\* a run of two groups ended by an exception, with all its requests posted
C10_Witness ==
    /\ confirmed = "yes"
    /\ pcMain = "crashed"
    /\ Len(config) = 2
    /\ PostsIssued = 2 * MaxN

\* the unit cost of the run's images
UnitCost ==
    calculate_cost(args.width, args.height, args.num_inference_steps)

\* C11: with width, height, steps and n_per_country not negative, the images
\* counted never exceed the images planned, and the actual cost, the count
\* times the unit cost, never exceeds the planned cost.
C11_ActualWithinPlanned ==
    /\ actual_cost <= total_cost
    /\ generated_images <= total_images
    /\ pcMain = "done" =>
          /\ total_cost = Len(config) * args.n_per_country * UnitCost
          /\ actual_cost = generated_images * UnitCost
          /\ \A g \in Groups : grp[g].ret <= args.n_per_country

\* a run ended with fewer images than planned and a lower cost
C11_Witness ==
    /\ pcMain = "done"
    /\ 0 < generated_images
    /\ generated_images < total_images
    /\ 0 < actual_cost
    /\ actual_cost < total_cost

\* the number in a file name the save loop made for group g
NumberIn(g, name) ==
    CHOOSE k \in 1..(Cardinality(DOMAIN fs0[g].files) + MaxN + 1) :
        FileName(g, k) = name

\* C12: whatever files a group's folder held when the run began (numbered
\* files with gaps, .png files of other names), the names the run gives its
\* images in that folder are distinct, their numbers strictly increase, and
\* none is the name of a file that was there: no earlier file is overwritten.
C12_NamesFreshAndIncreasing ==
    \A g \in AllGroups :
        /\ \A i, j \in DOMAIN written[g] :
              i < j => NumberIn(g, written[g][i]) < NumberIn(g, written[g][j])
        /\ \A i \in DOMAIN written[g] : written[g][i] \notin DOMAIN fs0[g].files
        /\ \A f \in DOMAIN fs0[g].files :
              f \in DOMAIN fs[g].files /\ fs[g].files[f] = fs0[g].files[f]

\* the requests of a group that came back with bytes that are no image
Garbage(g) ==
    {i \in 1..args.n_per_country : req[<<g, i>>].result = "garbage"}

\* C13: a failure to decode or save one image is caught: it does not leave
\* the group's task (a group ends with an exception only when one of its
\* requests raised), the group returns with every image of its batch saved,
\* and the image that failed is not in the count it returns.
C13_SaveErrorsCaught ==
    \A g \in Groups :
        /\ grp[g].pc = "raised" => grp[g].exc
        /\ grp[g].pc = "returned" =>
              /\ Len(written[g]) = Cardinality(Images(g))
              /\ grp[g].ret <= args.n_per_country - Cardinality(Garbage(g))

\* C14: the scan of the folder and the write that follows are one exclusive
\* step: only one group is in its save loop at a time and it holds the
\* thread; so no two images of a run are given the same output path (paths
\* of different groups lie in different folders).
C14_ScanAndClaimExclusive ==
    /\ \A g, h \in AllGroups :
          grp[g].pc = "saving" /\ grp[h].pc = "saving" => g = h
    /\ \A g \in AllGroups : grp[g].pc = "saving" => running = g
    /\ \A g \in AllGroups : \A i, j \in DOMAIN written[g] :
          i # j => written[g][i] # written[g][j]

RECURSIVE SumPersisted(_)
SumPersisted(cfg) ==
    IF cfg = <<>> THEN 0
    ELSE Cardinality(FilesPersisted(Head(cfg))) + SumPersisted(Tail(cfg))

\* C17: the count a group returns is the number of image files it persisted,
\* whatever its requests came back with (a 200 with an empty payload too);
\* so the total that is reported and billed is the number of files persisted.
C17_CountIsFilesPersisted ==
    /\ \A g \in Groups :
          grp[g].pc = "returned" =>
              grp[g].ret = Cardinality(FilesPersisted(g))
    /\ pcMain = "done" =>
          /\ generated_images = SumPersisted(config)
          /\ actual_cost = SumPersisted(config) * UnitCost

\* C15: both fan-outs are barriers. No image of a group is persisted before
\* every one of the group's n_per_country requests has completed; the run's
\* total of images and its actual cost are computed only after every group
\* has returned.
C15_BothLevelsAreBarriers ==
    /\ \A g \in AllGroups :
          (written[g] # <<>> \/ FilesPersisted(g) # {}
              \/ grp[g].pc \in {"saving", "returned"}) =>
             \A i \in 1..args.n_per_country : req[<<g, i>>].pc = "done"
    /\ (pcMain = "done" \/ generated_images # 0 \/ actual_cost # 0) =>
          \A g \in Groups : grp[g].pc = "returned"

\* two groups of two requests each, every image saved, the summary reached
C15_Witness ==
    /\ pcMain = "done"
    /\ Len(config) = 2
    /\ args.n_per_country = 2
    /\ \A g \in Groups : Len(written[g]) = 2
    /\ generated_images = 4
    /\ actual_cost > 0

\* The names the save loop of group g gives when it runs over the results of
\* the group's requests by position, from request i on, in folder dir: what
\* the results alone decide.
RECURSIVE Replay(_, _, _, _)
Replay(g, i, dir, names) ==
    IF i \notin 1..args.n_per_country THEN names
    ELSE LET result == req[<<g, i>>].result
             file_name == FileName(g, get_next_image_number(dir))
         IN  IF result = "garbage" THEN names
             ELSE IF result = "image"
             THEN Replay(g, i + 1, WriteFile(dir, file_name, ImageData(g, i)),
                         Append(names, file_name))
             ELSE Replay(g, i + 1, dir, names)

ExpectedNames(g) ==
    IF \E i \in 1..args.n_per_country : req[<<g, i>>].result = "raised"
    THEN <<>>
    ELSE Replay(g, 1, MakeDirs(fs0[g]), <<>>)

\* the count the results of a group's requests decide
ExpectedCount(g) ==
    Cardinality({i \in 1..args.n_per_country : req[<<g, i>>].result # "None"})

RECURSIVE SumExpected(_)
SumExpected(cfg) ==
    IF cfg = <<>> THEN 0
    ELSE ExpectedCount(Head(cfg)) + SumExpected(Tail(cfg))

\* the run is over
Ended == pcMain \in {"done", "crashed"}

\* C16: with the answer to the prompt and the outcome of every request
\* fixed, the results of the run are the same in whatever order the requests
\* complete: once the run is over and every request has had its outcome, the
\* files each group created are those the outcomes decide, and so are the
\* counts of the groups, the total and the actual cost that are reported.
C16_OrderDoesNotMatter ==
    (Ended /\ \A g \in Groups : \A i \in 1..args.n_per_country :
                 req[<<g, i>>].pc = "done") =>
        /\ \A g \in Groups : written[g] = ExpectedNames(g)
        /\ pcMain = "done" =>
              /\ \A g \in Groups : grp[g].ret = ExpectedCount(g)
              /\ generated_images = SumExpected(config)
              /\ actual_cost = SumExpected(config) * UnitCost

\* C18: the groups are independent. What is created or changed in a group's
\* folder is an image of one of the group's own requests, and the folder of
\* a group that is not configured is left alone; the count and the files of
\* a group depend on the outcomes of its own requests only: a group whose
\* requests all came back, none with an exception or with bytes that are no
\* image, has returned by the end of the run with the count and the files
\* its own results decide, whatever became of the other groups.
C18_GroupsIndependent ==
    /\ \A g \in AllGroups :
          \A f \in FilesPersisted(g) : fs[g].files[f].src = g
    /\ \A g \in AllGroups \ Groups : fs[g] = fs0[g]
    /\ \A g \in Groups :
          (/\ Ended
           /\ confirmed = "yes"
           /\ \A i \in 1..args.n_per_country :
                 /\ req[<<g, i>>].pc = "done"
                 /\ req[<<g, i>>].result \notin {"raised", "garbage"}) =>
              /\ grp[g].pc = "returned"
              /\ grp[g].ret = ExpectedCount(g)
              /\ written[g] = ExpectedNames(g)

====
